---- MODULE Spec2Model ----
(***************************************************************************)
(* Model of the inventory-adjustment and transaction-ledger subsystem of   *)
(* inventory-v1: the inventory and inventory_transactions tables, the      *)
(* services of app/services and the HTTP handlers of app/api/v1/endpoints  *)
(* that call them.                                                         *)
(*                                                                         *)
(* Spec      one action per HTTP handler, each running to completion       *)
(*           (one request at a time).                                      *)
(* SpecConc  two adjustment requests against one inventory row, each split *)
(*           at its database round trips (SELECT, UPDATE+COMMIT, refresh,  *)
(*           INSERT+COMMIT), interleaved.                                  *)
(***************************************************************************)
EXTENDS Integers, Sequences, FiniteSets, TLC

(* ------------------------------ bounds -------------------------------- *)
MaxProducts == 1      \* rows of the products table
MaxInventory == 1     \* rows of the inventory table
MaxLedger == 2        \* rows of the inventory_transactions table
MaxQty == 2           \* largest quantity a request may produce
MaxClock == 3         \* ticks of the created_at clock
MaxCatalog == 2       \* rows of the products table in SpecCatalog
MaxStock == 2         \* rows of the inventory table in SpecStock
MaxAudit == 3         \* rows of the inventory_transactions table in SpecAudit
MaxRecords == 101     \* rows of the inventory table in SpecPages

\* limit: int = 100, the default page of the inventory_service queries
DefaultLimit == 100

(* Python's None for Optional[int] (ids start at 1) and Optional[str].     *)
NoneInt == 0
NoneStr == "None"

(* the inputs the requests are drawn from *)
Skus == {"S1", "S2"}
CatalogSkus == Skus \cup {"S3"}
CatalogIds == 1..(MaxCatalog + 1)
Locations == {"A", "B"}
ProductIds == 1..(MaxProducts + 1)
InventoryIds == 1..(MaxInventory + 1)
TransactionIds == 1..(MaxLedger + 1)
Quantities == (-1)..MaxQty
Deltas == (-(MaxQty + 1))..MaxQty
Amounts == {-2, 0, 1, 3}
\* who asks and why: reason and performed_by of a request
Callers == {[reason |-> NoneStr, performed_by |-> NoneInt],
            [reason |-> "Sale", performed_by |-> 1]}

\* ... of PATCH /inventory/{id}/adjust, whose reason may also be sent empty
\* (?reason=)
AdjustCallers == Callers \cup {[reason |-> "", performed_by |-> NoneInt]}

VARIABLES
    products,    \* products table: id -> [sku]
    inventory,   \* inventory table: id -> [product_id, quantity, location]
    ledger,      \* inventory_transactions table, rows in insertion order
    clock,       \* utcnow(), counted in ticks
    last,        \* the last request served and its response
    req          \* SpecConc: the requests in flight

vars == <<products, inventory, ledger, clock, last, req>>

(* ------------------------------ helpers ------------------------------- *)
Max(a, b) == IF a >= b THEN a ELSE b

abs(x) == IF x < 0 THEN -x ELSE x

MaxOf(S) == CHOOSE x \in S : \A y \in S : y <= x

\* INTEGER PRIMARY KEY of SQLite: the new rowid is the largest one in use + 1
NextId(S) == IF S = {} THEN 1 ELSE MaxOf(S) + 1

LedgerIds(led) == {led[i].id : i \in 1..Len(led)}

RECURSIVE SumSeq(_)
SumSeq(s) == IF s = <<>> THEN 0 ELSE Head(s) + SumSeq(Tail(s))

(* ------------------- inventory_transaction_service -------------------- *)
\* The result of a service call: the tables after it and what it returned.
Outcome(inv, led, clk, found) ==
    [inventory |-> inv, ledger |-> led, clock |-> clk, found |-> found]

\* create_transaction keeping one row per product: the row of the product is
\* replaced
create_transaction_replacing(led, clk, transaction) ==
    [ledger |-> Append(SelectSeq(led, LAMBDA t :
                           t.product_id # transaction.product_id),
                       [id            |-> NextId(LedgerIds(led)),
                        product_id    |-> transaction.product_id,
                        change_amount |-> transaction.change_amount,
                        reason        |-> transaction.reason,
                        performed_by  |-> transaction.performed_by,
                        created_at    |-> clk]),
     clock |-> clk + 1]

\* create_transaction: INSERT one row; id and created_at are column defaults.
create_transaction(led, clk, transaction) ==
    [ledger |-> Append(led, [id            |-> NextId(LedgerIds(led)),
                             product_id    |-> transaction.product_id,
                             change_amount |-> transaction.change_amount,
                             reason        |-> transaction.reason,
                             performed_by  |-> transaction.performed_by,
                             created_at    |-> clk]),
     clock |-> clk + 1]

InventoryTransactionCreate(product_id, change_amount, reason, performed_by) ==
    [product_id |-> product_id, change_amount |-> change_amount,
     reason |-> reason, performed_by |-> performed_by]

\* position of the row with the given id, 0 when there is none (.first())
RowOf(led, transaction_id) ==
    IF transaction_id \in LedgerIds(led)
    THEN CHOOSE i \in 1..Len(led) : led[i].id = transaction_id
    ELSE 0

\* update_transaction: of the fields the request sets, only reason and
\* performed_by are written.
allowed_fields == {"reason", "performed_by"}

\* update_transaction without the allowed_fields test
update_transaction_all_fields(led, transaction_id, transaction_update) ==
    LET i == RowOf(led, transaction_id)
        written == transaction_update.fields
    IN IF i = 0 THEN led
       ELSE [led EXCEPT
               ![i].change_amount = IF "change_amount" \in written
                                    THEN transaction_update.change_amount ELSE @,
               ![i].reason = IF "reason" \in written
                             THEN transaction_update.reason ELSE @,
               ![i].performed_by = IF "performed_by" \in written
                                   THEN transaction_update.performed_by ELSE @]

update_transaction(led, transaction_id, transaction_update) ==
    LET i == RowOf(led, transaction_id)
        update_data == transaction_update.fields
        written == update_data \cap allowed_fields
    IN IF i = 0 THEN led
       ELSE [led EXCEPT
               ![i].reason = IF "reason" \in written
                             THEN transaction_update.reason ELSE @,
               ![i].performed_by = IF "performed_by" \in written
                                   THEN transaction_update.performed_by ELSE @]

delete_transaction(led, transaction_id) ==
    SelectSeq(led, LAMBDA t : t.id # transaction_id)

\* A str as Python and SQLite see it: the sequence of its characters.
Chars(text) ==
    CASE text = "" -> <<>>
      [] text = "A" -> <<"A">>
      [] text = "B" -> <<"B">>
      [] text = "Sale" -> <<"S", "a", "l", "e">>
      [] text = "SALE" -> <<"S", "A", "L", "E">>
      [] text = "al" -> <<"a", "l">>
      [] text = "xl" -> <<"x", "l">>
      [] text = "s_le" -> <<"s", "_", "l", "e">>

\* lower() of SQLite: the ASCII capitals are folded
lower(c) ==
    CASE c = "A" -> "a" [] c = "B" -> "b" [] c = "E" -> "e" [] c = "L" -> "l"
      [] c = "S" -> "s"
      [] OTHER -> c

Lowered(chars) == [i \in 1..Len(chars) |-> lower(chars[i])]

\* text LIKE pattern: % matches any run of characters, _ any one character
RECURSIVE Like(_, _)
Like(text, pattern) ==
    IF pattern = <<>> THEN text = <<>>
    ELSE IF Head(pattern) = "%"
    THEN \/ Like(text, Tail(pattern))
         \/ text # <<>> /\ Like(Tail(text), pattern)
    ELSE IF Head(pattern) = "_"
    THEN text # <<>> /\ Like(Tail(text), Tail(pattern))
    ELSE /\ text # <<>>
         /\ Head(text) = Head(pattern)
         /\ Like(Tail(text), Tail(pattern))

\* column.ilike(pattern): lower(column) LIKE lower(pattern); NULL matches
\* nothing
ilike(column, pattern) ==
    /\ column # NoneStr
    /\ Like(Lowered(Chars(column)), Lowered(pattern))

\* order_by(created_at.desc()) over the rows as the table holds them
RECURSIVE order_by_created_at_desc(_)
order_by_created_at_desc(rows) ==
    IF rows = <<>> THEN <<>>
    ELSE LET i == CHOOSE k \in 1..Len(rows) :
                     \A j \in 1..Len(rows) :
                        rows[j].created_at <= rows[k].created_at
         IN <<rows[i]>> \o order_by_created_at_desc(
                SubSeq(rows, 1, i - 1) \o SubSeq(rows, i + 1, Len(rows)))

\* .offset(skip).limit(limit)
offset_limit(rows, skip, limit) ==
    SubSeq(rows, skip + 1, IF skip + limit < Len(rows) THEN skip + limit
                           ELSE Len(rows))

\* get_transactions without its order_by
get_transactions_unordered(led, skip, limit) ==
    offset_limit(led, skip, limit)

get_transactions(led, skip, limit) ==
    offset_limit(order_by_created_at_desc(led), skip, limit)

get_transactions_by_product(led, product_id, skip, limit) ==
    offset_limit(order_by_created_at_desc(
        SelectSeq(led, LAMBDA t : t.product_id = product_id)), skip, limit)

get_transactions_by_user(led, user_id, skip, limit) ==
    offset_limit(order_by_created_at_desc(
        SelectSeq(led, LAMBDA t : t.performed_by = user_id)), skip, limit)

get_transactions_by_reason(led, reason, skip, limit) ==
    offset_limit(order_by_created_at_desc(
        SelectSeq(led, LAMBDA t :
            ilike(t.reason, <<"%">> \o Chars(reason) \o <<"%">>))),
        skip, limit)

\* get_product_transaction_summary with total_out summed without abs()
get_product_transaction_summary_signed(led, product_id) ==
    LET transactions == SelectSeq(led, LAMBDA t : t.product_id = product_id)
        ins == SelectSeq(transactions, LAMBDA t : t.change_amount > 0)
        outs == SelectSeq(transactions, LAMBDA t : t.change_amount < 0)
        total_in == SumSeq([i \in 1..Len(ins) |-> ins[i].change_amount])
        total_out == SumSeq([i \in 1..Len(outs) |-> outs[i].change_amount])
    IN [product_id |-> product_id,
        total_in |-> total_in,
        total_out |-> total_out,
        net_change |-> total_in - total_out,
        transaction_count |-> Len(transactions)]

\* get_product_transaction_summary
get_product_transaction_summary(led, product_id) ==
    LET transactions == SelectSeq(led, LAMBDA t : t.product_id = product_id)
        ins == SelectSeq(transactions, LAMBDA t : t.change_amount > 0)
        outs == SelectSeq(transactions, LAMBDA t : t.change_amount < 0)
        total_in == SumSeq([i \in 1..Len(ins) |-> ins[i].change_amount])
        total_out == SumSeq([i \in 1..Len(outs) |-> abs(outs[i].change_amount)])
        transaction_count == Len(transactions)
    IN [product_id |-> product_id,
        total_in |-> total_in,
        total_out |-> total_out,
        net_change |-> total_in - total_out,
        transaction_count |-> transaction_count]

(* -------------------------- inventory_service ------------------------- *)
product_exists(prods, product_id) == product_id \in DOMAIN prods

\* create_inventory_item clamping the quantity at 0
create_inventory_item_clamped(inv, inventory_create) ==
    LET id == NextId(DOMAIN inv)
    IN [i \in DOMAIN inv \cup {id} |->
          IF i = id THEN [product_id |-> inventory_create.product_id,
                          quantity   |-> Max(0, inventory_create.quantity),
                          location   |-> inventory_create.location]
          ELSE inv[i]]

create_inventory_item(inv, inventory_create) ==
    LET id == NextId(DOMAIN inv)
    IN [i \in DOMAIN inv \cup {id} |->
          IF i = id THEN [product_id |-> inventory_create.product_id,
                          quantity   |-> inventory_create.quantity,
                          location   |-> inventory_create.location]
          ELSE inv[i]]

\* update_inventory_item inserting the row when the id is not stored
update_inventory_item_upsert(inv, inventory_id, inventory_update) ==
    IF inventory_id \notin DOMAIN inv
    THEN [i \in DOMAIN inv \cup {inventory_id} |->
            IF i = inventory_id
            THEN [product_id |-> 1, quantity |-> inventory_update.quantity,
                  location |-> inventory_update.location]
            ELSE inv[i]]
    ELSE LET update_data == inventory_update.fields
         IN [inv EXCEPT
               ![inventory_id].quantity = IF "quantity" \in update_data
                                          THEN inventory_update.quantity ELSE @,
               ![inventory_id].location = IF "location" \in update_data
                                          THEN inventory_update.location ELSE @]

update_inventory_item(inv, inventory_id, inventory_update) ==
    IF inventory_id \notin DOMAIN inv THEN inv
    ELSE LET update_data == inventory_update.fields
         IN [inv EXCEPT
               ![inventory_id].quantity = IF "quantity" \in update_data
                                          THEN inventory_update.quantity ELSE @,
               ![inventory_id].location = IF "location" \in update_data
                                          THEN inventory_update.location ELSE @]

delete_inventory_item(inv, inventory_id) ==
    [i \in DOMAIN inv \ {inventory_id} |-> inv[i]]

\* db.query(Inventory)...all(): the rows of the table, in rowid order
Rows(inv) ==
    IF DOMAIN inv = {} THEN <<>>
    ELSE LET ids == SelectSeq([i \in 1..MaxOf(DOMAIN inv) |-> i],
                              LAMBDA i : i \in DOMAIN inv)
         IN [k \in 1..Len(ids) |->
               [id |-> ids[k], product_id |-> inv[ids[k]].product_id,
                quantity |-> inv[ids[k]].quantity,
                location |-> inv[ids[k]].location]]

get_inventory_items(inv, skip, limit) ==
    offset_limit(Rows(inv), skip, limit)

get_inventory_by_product(inv, product_id, skip, limit) ==
    offset_limit(SelectSeq(Rows(inv), LAMBDA r : r.product_id = product_id),
                 skip, limit)

get_inventory_by_location(inv, location, skip, limit) ==
    offset_limit(SelectSeq(Rows(inv), LAMBDA r :
                     ilike(r.location, <<"%">> \o Chars(location) \o <<"%">>)),
                 skip, limit)

\* get_low_stock_items comparing with < instead of <=
get_low_stock_items_below(inv, threshold, skip, limit) ==
    offset_limit(SelectSeq(Rows(inv), LAMBDA r : r.quantity < threshold),
                 skip, limit)

get_low_stock_items(inv, threshold, skip, limit) ==
    offset_limit(SelectSeq(Rows(inv), LAMBDA r : r.quantity <= threshold),
                 skip, limit)

\* the += without the clamp
ClampedQuantity_unclamped(old_quantity, quantity_change) ==
    old_quantity + quantity_change

\* the quantity adjust_inventory_quantity assigns: += and the clamp at 0
ClampedQuantity(old_quantity, quantity_change) ==
    LET added == old_quantity + quantity_change
    IN IF added < 0 THEN 0 ELSE added

\* the default taken whatever the request's reason
ReasonOrDefault_always(reason) == "Quantity adjustment"

\* the default taken only for None
ReasonOrDefault_if_none(reason) ==
    IF reason = NoneStr THEN "Quantity adjustment" ELSE reason

\* reason or "Quantity adjustment": None and "" are both falsy
ReasonOrDefault(reason) ==
    IF reason \in {NoneStr, ""} THEN "Quantity adjustment" ELSE reason

\* adjust_inventory_quantity recording the requested quantity_change
adjust_inventory_quantity_requested(inv, led, clk, inventory_id, quantity_change, reason, performed_by, create_tx) ==
    IF inventory_id \notin DOMAIN inv THEN Outcome(inv, led, clk, FALSE)
    ELSE LET old_quantity == inv[inventory_id].quantity
             new_quantity == ClampedQuantity(old_quantity, quantity_change)
             inv2 == [inv EXCEPT ![inventory_id].quantity = new_quantity]
         IN IF create_tx /\ quantity_change # 0
            THEN LET t == create_transaction(led, clk,
                              InventoryTransactionCreate(
                                  inv2[inventory_id].product_id, quantity_change,
                                  ReasonOrDefault(reason), performed_by))
                 IN Outcome(inv2, t.ledger, t.clock, TRUE)
            ELSE Outcome(inv2, led, clk, TRUE)

\* adjust_inventory_quantity recording the id of the record as product_id
adjust_inventory_quantity_by_record(inv, led, clk, inventory_id, quantity_change, reason, performed_by, create_tx) ==
    IF inventory_id \notin DOMAIN inv THEN Outcome(inv, led, clk, FALSE)
    ELSE LET old_quantity == inv[inventory_id].quantity
             new_quantity == ClampedQuantity(old_quantity, quantity_change)
             actual_change == new_quantity - old_quantity
             inv2 == [inv EXCEPT ![inventory_id].quantity = new_quantity]
         IN IF create_tx /\ actual_change # 0
            THEN LET t == create_transaction(led, clk,
                              InventoryTransactionCreate(
                                  inventory_id, actual_change,
                                  ReasonOrDefault(reason), performed_by))
                 IN Outcome(inv2, t.ledger, t.clock, TRUE)
            ELSE Outcome(inv2, led, clk, TRUE)

\* adjust_inventory_quantity without the actual_change != 0 test
adjust_inventory_quantity_unconditional(inv, led, clk, inventory_id, quantity_change, reason, performed_by, create_tx) ==
    IF inventory_id \notin DOMAIN inv THEN Outcome(inv, led, clk, FALSE)
    ELSE LET old_quantity == inv[inventory_id].quantity
             new_quantity == ClampedQuantity(old_quantity, quantity_change)
             actual_change == new_quantity - old_quantity
             inv2 == [inv EXCEPT ![inventory_id].quantity = new_quantity]
         IN IF create_tx
            THEN LET t == create_transaction(led, clk,
                              InventoryTransactionCreate(
                                  inv2[inventory_id].product_id, actual_change,
                                  ReasonOrDefault(reason), performed_by))
                 IN Outcome(inv2, t.ledger, t.clock, TRUE)
            ELSE Outcome(inv2, led, clk, TRUE)

\* adjust_inventory_quantity appending the entry whatever create_transaction
adjust_inventory_quantity_always(inv, led, clk, inventory_id, quantity_change, reason, performed_by, create_tx) ==
    IF inventory_id \notin DOMAIN inv THEN Outcome(inv, led, clk, FALSE)
    ELSE LET old_quantity == inv[inventory_id].quantity
             new_quantity == ClampedQuantity(old_quantity, quantity_change)
             actual_change == new_quantity - old_quantity
             inv2 == [inv EXCEPT ![inventory_id].quantity = new_quantity]
         IN IF actual_change # 0
            THEN LET t == create_transaction(led, clk,
                              InventoryTransactionCreate(
                                  inv2[inventory_id].product_id, actual_change,
                                  ReasonOrDefault(reason), performed_by))
                 IN Outcome(inv2, t.ledger, t.clock, TRUE)
            ELSE Outcome(inv2, led, clk, TRUE)

adjust_inventory_quantity(inv, led, clk, inventory_id, quantity_change, reason, performed_by, create_tx) ==
    IF inventory_id \notin DOMAIN inv THEN Outcome(inv, led, clk, FALSE)
    ELSE LET old_quantity == inv[inventory_id].quantity
             new_quantity == ClampedQuantity(old_quantity, quantity_change)
             actual_change == new_quantity - old_quantity
             inv2 == [inv EXCEPT ![inventory_id].quantity = new_quantity]
         IN IF create_tx /\ actual_change # 0
            THEN LET t == create_transaction(led, clk,
                              InventoryTransactionCreate(
                                  inv2[inventory_id].product_id, actual_change,
                                  ReasonOrDefault(reason), performed_by))
                 IN Outcome(inv2, t.ledger, t.clock, TRUE)
            ELSE Outcome(inv2, led, clk, TRUE)

\* update_inventory_with_transaction without the quantity_change != 0 test
update_inventory_with_transaction_always(inv, led, clk, inventory_id, new_quantity, reason, performed_by) ==
    IF inventory_id \notin DOMAIN inv THEN Outcome(inv, led, clk, FALSE)
    ELSE LET old_quantity == inv[inventory_id].quantity
             inv2 == [inv EXCEPT ![inventory_id].quantity = new_quantity]
             t == create_transaction(led, clk,
                      InventoryTransactionCreate(
                          inv2[inventory_id].product_id,
                          new_quantity - old_quantity, reason, performed_by))
         IN Outcome(inv2, t.ledger, t.clock, TRUE)

\* update_inventory_with_transaction adding new_quantity to the quantity
update_inventory_with_transaction_additive(inv, led, clk, inventory_id, new_quantity, reason, performed_by) ==
    IF inventory_id \notin DOMAIN inv THEN Outcome(inv, led, clk, FALSE)
    ELSE LET old_quantity == inv[inventory_id].quantity
             quantity_change == new_quantity
             inv2 == [inv EXCEPT
                        ![inventory_id].quantity = old_quantity + new_quantity]
         IN IF quantity_change # 0
            THEN LET t == create_transaction(led, clk,
                              InventoryTransactionCreate(
                                  inv2[inventory_id].product_id, quantity_change,
                                  reason, performed_by))
                 IN Outcome(inv2, t.ledger, t.clock, TRUE)
            ELSE Outcome(inv2, led, clk, TRUE)

\* update_inventory_with_transaction recording the new quantity as the change
update_inventory_with_transaction_absolute(inv, led, clk, inventory_id, new_quantity, reason, performed_by) ==
    IF inventory_id \notin DOMAIN inv THEN Outcome(inv, led, clk, FALSE)
    ELSE LET old_quantity == inv[inventory_id].quantity
             quantity_change == new_quantity - old_quantity
             inv2 == [inv EXCEPT ![inventory_id].quantity = new_quantity]
         IN IF quantity_change # 0
            THEN LET t == create_transaction(led, clk,
                              InventoryTransactionCreate(
                                  inv2[inventory_id].product_id, new_quantity,
                                  reason, performed_by))
                 IN Outcome(inv2, t.ledger, t.clock, TRUE)
            ELSE Outcome(inv2, led, clk, TRUE)

update_inventory_with_transaction(inv, led, clk, inventory_id, new_quantity, reason, performed_by) ==
    IF inventory_id \notin DOMAIN inv THEN Outcome(inv, led, clk, FALSE)
    ELSE LET old_quantity == inv[inventory_id].quantity
             quantity_change == new_quantity - old_quantity
             inv2 == [inv EXCEPT ![inventory_id].quantity = new_quantity]
         IN IF quantity_change # 0
            THEN LET t == create_transaction(led, clk,
                              InventoryTransactionCreate(
                                  inv2[inventory_id].product_id, quantity_change,
                                  reason, performed_by))
                 IN Outcome(inv2, t.ledger, t.clock, TRUE)
            ELSE Outcome(inv2, led, clk, TRUE)

(* --------------------------- product_service -------------------------- *)
\* create_product: the INSERT fails on a duplicate sku (unique=True).
SkuTaken(prods, sku) == \E p \in DOMAIN prods : prods[p].sku = sku

create_product(prods, sku) ==
    LET id == NextId(DOMAIN prods)
    IN [p \in DOMAIN prods \cup {id} |->
          IF p = id THEN [sku |-> sku] ELSE prods[p]]

\* Product.inventory_items: the Inventory rows of a product
inventory_items(inv, product_id) ==
    {i \in DOMAIN inv : inv[i].product_id = product_id}

\* delete_product: DELETE the row of the product
delete_product(prods, product_id) ==
    [p \in DOMAIN prods \ {product_id} |-> prods[p]]

\* the unique index on sku: another row holds the value
SkuHeldByOther(prods, product_id, sku) ==
    \E p \in DOMAIN prods \ {product_id} : prods[p].sku = sku

\* update_product: setattr of the fields the request sets
update_product(prods, product_id, product_update) ==
    IF product_id \notin DOMAIN prods THEN prods
    ELSE [prods EXCEPT ![product_id].sku =
             IF "sku" \in product_update.fields THEN product_update.sku ELSE @]

(* ------------------------------ requests ------------------------------ *)
NoSummary ==
    [product_id |-> 0, total_in |-> 0, total_out |-> 0, net_change |-> 0,
     transaction_count |-> 0]

\* a response whose body the model does not read
NoBody == [message |-> NoneStr, warning |-> NoneStr]

\* The request just served: the handler, the id it names, its argument
\* (amount; flag is create_transaction for an adjustment, "the field is set"
\* for an update), the quantity and the number of ledger rows before it, and
\* the response.
Served(op, id, amount, flag, old_quantity, status) ==
    [op |-> op, id |-> id, amount |-> amount, flag |-> flag,
     reason |-> NoneStr, performed_by |-> NoneInt,
     old_quantity |-> old_quantity, old_len |-> Len(ledger),
     status |-> status, summary |-> NoSummary, listed |-> <<>>,
     body |-> NoBody]

\* ... of a request that carries reason and performed_by
ServedFor(reason, performed_by, op, id, amount, flag, old_quantity, status) ==
    [Served(op, id, amount, flag, old_quantity, status)
     EXCEPT !.reason = reason, !.performed_by = performed_by]

\* the reason filters of GET /inventory-transactions
ReasonFilters == {NoneStr, "", "SALE", "al", "xl", "s_le"}

\* the 404 of a handler whose service returned None / False
NotFound(op, id) == Served(op, id, 0, FALSE, 0, 404)

\* InventoryUpdate / InventoryTransactionUpdate: `fields` are the fields the
\* request sets (model_dump(exclude_unset=True)); an unset field is None.
InventoryUpdates ==
    {u \in [fields : SUBSET {"quantity", "location"},
            quantity : Quantities, location : Locations] :
        /\ "quantity" \notin u.fields => u.quantity = 0
        /\ "location" \notin u.fields => u.location = "A"}

InventoryTransactionUpdates ==
    {u \in [fields : SUBSET {"change_amount", "reason", "performed_by"},
            change_amount : {0, 3}, reason : {NoneStr, "Fix"},
            performed_by : {NoneInt, 2}] :
        /\ "change_amount" \in u.fields => u.change_amount = 3
        /\ "reason" \in u.fields => u.reason = "Fix"
        /\ "performed_by" \in u.fields => u.performed_by = 2
        /\ "change_amount" \notin u.fields => u.change_amount = 0
        /\ "reason" \notin u.fields => u.reason = NoneStr
        /\ "performed_by" \notin u.fields => u.performed_by = NoneInt}

(* ------------------------ endpoints/product.py ------------------------ *)
\* POST /products: the unique index on sku rejects a duplicate (the commit
\* raises, nothing is stored).
post_product(sku) ==
    /\ products' = IF SkuTaken(products, sku) THEN products
                   ELSE create_product(products, sku)
    /\ last' = Served("create_product", 0, 0, FALSE, 0,
                      IF SkuTaken(products, sku) THEN 500 ELSE 200)
    /\ UNCHANGED <<inventory, ledger, clock, req>>

\* DELETE /products/{product_id}.  The relationship inventory_items has no
\* delete cascade and the database enforces no foreign key, so the flush of
\* db.delete(db_product) detaches the product's Inventory rows by an UPDATE
\* of product_id to NULL; the column is NOT NULL, db.commit() raises, and
\* neither the product nor its rows are touched.
delete_product_endpoint(product_id) ==
    IF product_id \notin DOMAIN products
    THEN /\ last' = NotFound("delete_product", product_id)
         /\ UNCHANGED <<products, inventory, ledger, clock, req>>
    ELSE IF inventory_items(inventory, product_id) # {}
    THEN /\ last' = Served("delete_product", product_id, 0, FALSE, 0, 500)
         /\ UNCHANGED <<products, inventory, ledger, clock, req>>
    ELSE /\ products' = delete_product(products, product_id)
         /\ last' = Served("delete_product", product_id, 0, FALSE, 0, 200)
         /\ UNCHANGED <<inventory, ledger, clock, req>>

\* ProductUpdate: `fields` are the fields the request sets
ProductUpdates ==
    {[fields |-> {}, sku |-> NoneStr]}
        \cup {[fields |-> {"sku"}, sku |-> k] : k \in CatalogSkus}

\* the handler on a table without the unique index on sku
put_product_unconstrained(product_id, product_update) ==
    /\ products' = update_product(products, product_id, product_update)
    /\ last' = IF product_id \in DOMAIN products
               THEN Served("update_product", product_id, 0,
                           "sku" \in product_update.fields, 0, 200)
               ELSE NotFound("update_product", product_id)
    /\ UNCHANGED <<inventory, ledger, clock, req>>

\* PUT /products/{product_id}: the unique index on sku rejects a value
\* another product holds (db.commit() raises, nothing is stored).
put_product(product_id, product_update) ==
    IF product_id \notin DOMAIN products
    THEN /\ last' = NotFound("update_product", product_id)
         /\ UNCHANGED <<products, inventory, ledger, clock, req>>
    ELSE IF /\ "sku" \in product_update.fields
            /\ SkuHeldByOther(products, product_id, product_update.sku)
    THEN /\ last' = Served("update_product", product_id, 0, TRUE, 0, 500)
         /\ UNCHANGED <<products, inventory, ledger, clock, req>>
    ELSE /\ products' = update_product(products, product_id, product_update)
         /\ last' = Served("update_product", product_id, 0,
                           "sku" \in product_update.fields, 0, 200)
         /\ UNCHANGED <<inventory, ledger, clock, req>>

(* ----------------------- endpoints/inventory.py ----------------------- *)
\* the handler without its product_exists check
post_inventory_unchecked(product_id, quantity, location) ==
    LET inv2 == create_inventory_item(inventory,
                    [product_id |-> product_id, quantity |-> quantity,
                     location |-> location])
    IN /\ inventory' = inv2
       /\ last' = Served("create_inventory_item", NextId(DOMAIN inventory),
                         quantity, FALSE, 0, 200)
       /\ UNCHANGED <<products, ledger, clock, req>>

post_inventory(product_id, quantity, location) ==
    IF product_exists(products, product_id)
    THEN LET inv2 == create_inventory_item(inventory,
                         [product_id |-> product_id, quantity |-> quantity,
                          location |-> location])
         IN /\ inventory' = inv2
            /\ last' = Served("create_inventory_item", NextId(DOMAIN inventory),
                              quantity, FALSE, 0, 200)
            /\ UNCHANGED <<products, ledger, clock, req>>
    ELSE /\ last' = Served("create_inventory_item", 0, 0, FALSE, 0, 400)
         /\ UNCHANGED <<products, inventory, ledger, clock, req>>

\* the handler recording a change of quantity in the ledger
put_inventory_recorded(inventory_id, inventory_update) ==
    IF inventory_id \in DOMAIN inventory
    THEN LET inv2 == update_inventory_item(inventory, inventory_id,
                                           inventory_update)
             change == inv2[inventory_id].quantity
                          - inventory[inventory_id].quantity
             t == create_transaction(ledger, clock,
                      InventoryTransactionCreate(
                          inv2[inventory_id].product_id, change, "Update",
                          NoneInt))
         IN /\ inventory' = inv2
            /\ ledger' = IF change # 0 THEN t.ledger ELSE ledger
            /\ clock' = IF change # 0 THEN t.clock ELSE clock
            /\ last' = Served("update_inventory_item", inventory_id,
                              inventory_update.quantity,
                              "quantity" \in inventory_update.fields,
                              inventory[inventory_id].quantity, 200)
            /\ UNCHANGED <<products, req>>
    ELSE /\ last' = NotFound("update_inventory_item", inventory_id)
         /\ UNCHANGED <<products, inventory, ledger, clock, req>>

put_inventory(inventory_id, inventory_update) ==
    IF inventory_id \in DOMAIN inventory
    THEN LET inv2 == update_inventory_item(inventory, inventory_id,
                                           inventory_update)
         IN /\ inventory' = inv2
            /\ last' = Served("update_inventory_item", inventory_id,
                              inventory_update.quantity,
                              "quantity" \in inventory_update.fields,
                              inventory[inventory_id].quantity, 200)
            /\ UNCHANGED <<products, ledger, clock, req>>
    ELSE /\ inventory' = update_inventory_item(inventory, inventory_id,
                                               inventory_update)
         /\ last' = NotFound("update_inventory_item", inventory_id)
         /\ UNCHANGED <<products, ledger, clock, req>>

delete_inventory(inventory_id) ==
    /\ inventory' = delete_inventory_item(inventory, inventory_id)
    /\ last' = IF inventory_id \in DOMAIN inventory
               THEN Served("delete_inventory_item", inventory_id, 0, FALSE,
                           inventory[inventory_id].quantity, 200)
               ELSE NotFound("delete_inventory_item", inventory_id)
    /\ UNCHANGED <<products, ledger, clock, req>>

\* the handler without its `if inventory is None: raise HTTPException(404)`
patch_adjust_no_404(inventory_id, quantity_change, reason, performed_by, create_tx) ==
    LET out == adjust_inventory_quantity(inventory, ledger, clock, inventory_id,
                   quantity_change, reason, performed_by, create_tx)
    IN /\ inventory' = out.inventory
       /\ ledger' = out.ledger
       /\ clock' = out.clock
       /\ last' = ServedFor(reason, performed_by, "adjust_inventory_quantity",
                            inventory_id, quantity_change, create_tx,
                            IF out.found THEN inventory[inventory_id].quantity
                            ELSE 0, 200)
       /\ UNCHANGED <<products, req>>

patch_adjust(inventory_id, quantity_change, reason, performed_by, create_tx) ==
    LET out == adjust_inventory_quantity(inventory, ledger, clock, inventory_id,
                   quantity_change, reason, performed_by, create_tx)
    IN /\ inventory' = out.inventory
       /\ ledger' = out.ledger
       /\ clock' = out.clock
       /\ last' = IF out.found
                  THEN ServedFor(reason, performed_by,
                                 "adjust_inventory_quantity", inventory_id,
                                 quantity_change, create_tx,
                                 inventory[inventory_id].quantity, 200)
                  ELSE NotFound("adjust_inventory_quantity", inventory_id)
       /\ UNCHANGED <<products, req>>

\* new_quantity: int = Query(..., ge=0): a negative value is answered 422
\* before the handler runs.
set_inventory_quantity(inventory_id, new_quantity, reason, performed_by) ==
    IF new_quantity < 0
    THEN /\ last' = Served("set_inventory_quantity", inventory_id,
                           new_quantity, FALSE, 0, 422)
         /\ UNCHANGED <<products, inventory, ledger, clock, req>>
    ELSE LET out == update_inventory_with_transaction(inventory, ledger, clock,
                        inventory_id, new_quantity, reason, performed_by)
         IN /\ inventory' = out.inventory
            /\ ledger' = out.ledger
            /\ clock' = out.clock
            /\ last' = IF out.found
                       THEN ServedFor(reason, performed_by,
                                      "set_inventory_quantity", inventory_id,
                                      new_quantity, FALSE,
                                      inventory[inventory_id].quantity, 200)
                       ELSE NotFound("set_inventory_quantity", inventory_id)
            /\ UNCHANGED <<products, req>>

\* GET /inventory: a location that is set (and not empty) decides the query,
\* else a product_id that is set (and not 0).  The product query is called
\* without skip and limit, so with its defaults 0 and 100, and the handler
\* slices what it returns: items[skip:skip + limit].
list_inventory(skip, limit, location, product_id) ==
    /\ last' = [Served("get_inventory_items", product_id, 0, FALSE, 0, 200)
                EXCEPT !.listed =
                    IF location \notin {NoneStr, ""}
                    THEN get_inventory_by_location(inventory, location, skip,
                                                   limit)
                    ELSE IF product_id # NoneInt
                    THEN offset_limit(
                             get_inventory_by_product(inventory, product_id, 0,
                                                      DefaultLimit),
                             skip, limit)
                    ELSE get_inventory_items(inventory, skip, limit)]
    /\ UNCHANGED <<products, inventory, ledger, clock, req>>

\* GET /inventory/low-stock (threshold: int = Query(10, ge=0))
low_stock(threshold, skip, limit) ==
    /\ last' = [Served("get_low_stock_items", 0, threshold, FALSE, 0, 200)
                EXCEPT !.listed =
                    get_low_stock_items(inventory, threshold, skip, limit)]
    /\ UNCHANGED <<products, inventory, ledger, clock, req>>

(* ----------------- endpoints/inventory_transaction.py ----------------- *)
\* the handler with a product_exists check in front of the service
post_transaction_checked(product_id, change_amount, reason, performed_by) ==
    IF product_exists(products, product_id)
    THEN LET t == create_transaction(ledger, clock,
                      InventoryTransactionCreate(product_id, change_amount,
                                                 reason, performed_by))
         IN /\ ledger' = t.ledger
            /\ clock' = t.clock
            /\ last' = ServedFor(reason, performed_by, "create_transaction",
                                 NextId(LedgerIds(ledger)), change_amount,
                                 FALSE, 0, 200)
            /\ UNCHANGED <<products, inventory, req>>
    ELSE /\ last' = ServedFor(reason, performed_by, "create_transaction", 0,
                              change_amount, FALSE, 0, 400)
         /\ UNCHANGED <<products, inventory, ledger, clock, req>>

post_transaction(product_id, change_amount, reason, performed_by) ==
    LET t == create_transaction(ledger, clock,
                 InventoryTransactionCreate(product_id, change_amount, reason,
                                            performed_by))
    IN /\ ledger' = t.ledger
       /\ clock' = t.clock
       /\ last' = ServedFor(reason, performed_by, "create_transaction",
                            NextId(LedgerIds(ledger)), change_amount, FALSE,
                            0, 200)
       /\ UNCHANGED <<products, inventory, req>>

put_transaction(transaction_id, transaction_update) ==
    /\ ledger' = update_transaction(ledger, transaction_id, transaction_update)
    /\ last' = IF transaction_id \in LedgerIds(ledger)
               THEN ServedFor(transaction_update.reason,
                              transaction_update.performed_by,
                              "update_transaction", transaction_id,
                              transaction_update.change_amount,
                              "change_amount" \in transaction_update.fields,
                              0, 200)
               ELSE NotFound("update_transaction", transaction_id)
    /\ UNCHANGED <<products, inventory, clock, req>>

\* the body of the 200 of DELETE /inventory-transactions/{transaction_id}
DeletedBody ==
    [message |-> "Transaction deleted successfully",
     warning |-> "Audit trail integrity may be compromised"]

\* the handler refusing to delete an entry of a product that has inventory
delete_transaction_endpoint_guarded(transaction_id) ==
    LET i == RowOf(ledger, transaction_id)
    IN IF i # 0 /\ inventory_items(inventory, ledger[i].product_id) # {}
       THEN /\ last' = Served("delete_transaction", transaction_id, 0, FALSE,
                              0, 409)
            /\ UNCHANGED <<products, inventory, ledger, clock, req>>
       ELSE /\ ledger' = delete_transaction(ledger, transaction_id)
            /\ last' = IF i # 0
                       THEN [Served("delete_transaction", transaction_id, 0,
                                    FALSE, 0, 200)
                             EXCEPT !.body = DeletedBody]
                       ELSE NotFound("delete_transaction", transaction_id)
            /\ UNCHANGED <<products, inventory, clock, req>>

delete_transaction_endpoint(transaction_id) ==
    /\ ledger' = delete_transaction(ledger, transaction_id)
    /\ last' = IF transaction_id \in LedgerIds(ledger)
               THEN [Served("delete_transaction", transaction_id, 0, FALSE, 0,
                            200)
                     EXCEPT !.body = DeletedBody]
               ELSE NotFound("delete_transaction", transaction_id)
    /\ UNCHANGED <<products, inventory, clock, req>>

\* the handler applying every filter that is set
list_transactions_combined(skip, limit, product_id, user_id, reason) ==
    /\ last' = [ServedFor(reason, user_id, "get_transactions", product_id, 0,
                          FALSE, 0, 200)
                EXCEPT !.listed =
                    offset_limit(order_by_created_at_desc(
                        SelectSeq(ledger, LAMBDA t :
                            /\ product_id # NoneInt => t.product_id = product_id
                            /\ user_id # NoneInt => t.performed_by = user_id
                            /\ reason # NoneStr =>
                                  ilike(t.reason,
                                        <<"%">> \o Chars(reason) \o <<"%">>))),
                        skip, limit)]
    /\ UNCHANGED <<products, inventory, ledger, clock, req>>

\* GET /inventory-transactions: the first filter that is set decides the
\* query; `listed` is the response body.
list_transactions(skip, limit, product_id, user_id, reason) ==
    /\ last' = [ServedFor(reason, user_id, "get_transactions", product_id, 0,
                          FALSE, 0, 200)
                EXCEPT !.listed =
                    IF product_id # NoneInt
                    THEN get_transactions_by_product(ledger, product_id, skip,
                                                     limit)
                    ELSE IF user_id # NoneInt
                    THEN get_transactions_by_user(ledger, user_id, skip, limit)
                    ELSE IF reason # NoneStr
                    THEN get_transactions_by_reason(ledger, reason, skip, limit)
                    ELSE get_transactions(ledger, skip, limit)]
    /\ UNCHANGED <<products, inventory, ledger, clock, req>>

\* the handler with a not-found check on the product
get_summary_404(product_id) ==
    /\ last' = IF product_exists(products, product_id)
               THEN [Served("get_product_transaction_summary", product_id, 0,
                            FALSE, 0, 200)
                     EXCEPT !.summary =
                         get_product_transaction_summary(ledger, product_id)]
               ELSE NotFound("get_product_transaction_summary", product_id)
    /\ UNCHANGED <<products, inventory, ledger, clock, req>>

\* GET /summary/{product_id}: the handler returns the service's dict as is.
get_summary(product_id) ==
    /\ last' = [Served("get_product_transaction_summary", product_id, 0, FALSE,
                       0, 200)
                EXCEPT !.summary =
                    get_product_transaction_summary(ledger, product_id)]
    /\ UNCHANGED <<products, inventory, ledger, clock, req>>

(* --------------------------- specification ---------------------------- *)
NoRequests == <<>>

NothingServed ==
    [op |-> "none", id |-> 0, amount |-> 0, flag |-> FALSE,
     reason |-> NoneStr, performed_by |-> NoneInt,
     old_quantity |-> 0, old_len |-> 0, status |-> 0, summary |-> NoSummary,
     listed |-> <<>>, body |-> NoBody]

\* the empty database of create_tables.py
Init ==
    /\ products = <<>>
    /\ inventory = <<>>
    /\ ledger = <<>>
    /\ clock = 1
    /\ last = NothingServed
    /\ req = NoRequests

\* the states the bounds admit
Within ==
    /\ Cardinality(DOMAIN products) <= MaxProducts
    /\ Cardinality(DOMAIN inventory) <= MaxInventory
    /\ \A i \in DOMAIN inventory : inventory[i].quantity <= MaxQty
    /\ Len(ledger) <= MaxLedger
    /\ clock <= MaxClock

\* The inventory handlers; the ledger grows by the adjustments and loses
\* rows by DELETE.
Next ==
    /\ \/ \E sku \in Skus : post_product(sku)
       \/ \E p \in ProductIds, q \in Quantities, l \in Locations :
             post_inventory(p, q, l)
       \/ \E i \in InventoryIds, u \in InventoryUpdates : put_inventory(i, u)
       \/ \E i \in InventoryIds : delete_inventory(i)
       \/ \E i \in InventoryIds, d \in Deltas, c \in AdjustCallers, f \in BOOLEAN :
             patch_adjust(i, d, c.reason, c.performed_by, f)
       \/ \E i \in InventoryIds, n \in Quantities, c \in Callers :
             /\ c.reason # NoneStr
             /\ set_inventory_quantity(i, n, c.reason, c.performed_by)
       \/ \E t \in TransactionIds : delete_transaction_endpoint(t)
    /\ Within'

Spec == Init /\ [][Next]_vars

\* The ledger handlers on their own, product 1 in the catalog.
InitLedger ==
    /\ products = create_product(<<>>, "S1")
    /\ inventory = <<>>
    /\ ledger = <<>>
    /\ clock = 1
    /\ last = NothingServed
    /\ req = NoRequests

NextLedger ==
    /\ \/ \E p \in ProductIds, a \in Amounts, c \in Callers :
             post_transaction(p, a, c.reason, c.performed_by)
       \/ \E t \in TransactionIds, u \in InventoryTransactionUpdates :
             put_transaction(t, u)
       \/ \E t \in TransactionIds : delete_transaction_endpoint(t)
       \/ \E p \in ProductIds : get_summary(p)
    /\ Within'

SpecLedger == InitLedger /\ [][NextLedger]_vars

\* The ledger read through its list endpoint while entries are appended and
\* deleted.
NextList ==
    /\ \/ \E p \in ProductIds, c \in Callers :
             post_transaction(p, 1, c.reason, c.performed_by)
       \/ \E t \in TransactionIds : delete_transaction_endpoint(t)
       \/ \E skip \in 0..1, limit \in 1..MaxLedger, p \in {NoneInt} \cup ProductIds,
             u \in {NoneInt, 1}, r \in ReasonFilters :
             list_transactions(skip, limit, p, u, r)
    /\ Within'

SpecList == InitLedger /\ [][NextList]_vars

\* The catalog, inventory and ledger handlers that create, update and delete
\* rows, from the empty database.
NextCrud ==
    /\ \/ \E sku \in Skus : post_product(sku)
       \/ \E p \in ProductIds, q \in Quantities, l \in Locations :
             post_inventory(p, q, l)
       \/ \E i \in InventoryIds, u \in InventoryUpdates : put_inventory(i, u)
       \/ \E i \in InventoryIds : delete_inventory(i)
       \/ \E p \in ProductIds, c \in Callers :
             post_transaction(p, 1, c.reason, c.performed_by)
       \/ \E t \in TransactionIds, u \in InventoryTransactionUpdates :
             put_transaction(t, u)
       \/ \E t \in TransactionIds : delete_transaction_endpoint(t)
       \/ \E p \in ProductIds : delete_product_endpoint(p)
    /\ Within'

SpecCrud == Init /\ [][NextCrud]_vars

\* The product handlers on their own, from the empty database.
NextCatalog ==
    /\ \/ \E sku \in CatalogSkus : post_product(sku)
       \/ \E p \in CatalogIds, u \in ProductUpdates : put_product(p, u)
       \/ \E p \in CatalogIds : delete_product_endpoint(p)
    /\ Cardinality(DOMAIN products') <= MaxCatalog

SpecCatalog == Init /\ [][NextCatalog]_vars

\* The inventory table read through the low-stock query while records are
\* created and deleted, product 1 in the catalog.
NextStock ==
    /\ \/ \E p \in ProductIds, q \in Quantities : post_inventory(p, q, "A")
       \/ \E i \in 1..(MaxStock + 1) : delete_inventory(i)
       \/ \E t \in 0..MaxQty, skip \in 0..1, limit \in 1..MaxStock :
             low_stock(t, skip, limit)
    /\ Cardinality(DOMAIN inventory') <= MaxStock

SpecStock == InitLedger /\ [][NextStock]_vars

\* Recorded adjustments and sets, one after the other, of records created
\* before the ledger has any entry: two records of product 1, one of
\* product 2.
InitialStock ==
    create_inventory_item(
        create_inventory_item(
            create_inventory_item(<<>>,
                [product_id |-> 1, quantity |-> 1, location |-> "A"]),
            [product_id |-> 1, quantity |-> -1, location |-> "B"]),
        [product_id |-> 2, quantity |-> 0, location |-> "A"])

InitAudit ==
    /\ products = create_product(create_product(<<>>, "S1"), "S2")
    /\ inventory = InitialStock
    /\ ledger = <<>>
    /\ clock = 1
    /\ last = NothingServed
    /\ req = NoRequests

\* the ids of the records, and one that is not stored
AuditIds == 1..(Cardinality(DOMAIN InitialStock) + 1)

NextAudit ==
    /\ \/ \E i \in AuditIds, d \in Deltas :
             patch_adjust(i, d, NoneStr, NoneInt, TRUE)
       \/ \E i \in AuditIds, n \in Quantities :
             set_inventory_quantity(i, n, "Sale", 1)
    /\ \A i \in DOMAIN inventory' : inventory'[i].quantity <= MaxQty
    /\ Len(ledger') <= MaxAudit

SpecAudit == InitAudit /\ [][NextAudit]_vars

\* The inventory of product 1 growing record by record and read page by
\* page.
PageSkips == {0, DefaultLimit}
PageLimits == {1, DefaultLimit + 1}

NextPages ==
    /\ \/ post_inventory(1, 0, "A")
       \/ \E skip \in PageSkips, limit \in PageLimits, l \in {NoneStr, "B"},
             p \in {NoneInt, 1} : list_inventory(skip, limit, l, p)
    /\ Cardinality(DOMAIN inventory') <= MaxRecords

SpecPages == InitLedger /\ [][NextPages]_vars

(* ------------------- two requests against one row -------------------- *)
\* Each request has its own Session (get_db).  A handler's service call is
\* cut at its database round trips: the SELECT of .first(), the UPDATE and
\* COMMIT of db.commit(), the SELECT of db.refresh(), and the INSERT and COMMIT
\* of create_transaction.  Between them the other request may run.
Requests == {1, 2}

Idle ==
    [pc |-> "idle", op |-> "none", id |-> 0, amount |-> 0, reason |-> NoneStr,
     performed_by |-> NoneInt, flag |-> FALSE, old_quantity |-> 0,
     quantity |-> 0, change |-> 0, status |-> 0]

\* db.query(Inventory).filter(...).first() and the statements up to db.commit():
\* the row is copied into the Session, quantity is assigned on the copy.
Query(r, op, inventory_id, amount, reason, performed_by, create_tx) ==
    /\ req[r].pc = "idle"
    /\ op \in {"adjust_inventory_quantity", "set_inventory_quantity"}
    /\ op = "set_inventory_quantity" => amount >= 0 /\ reason # NoneStr /\ create_tx
    /\ LET arrived == [Idle EXCEPT !.op = op, !.id = inventory_id,
                                   !.amount = amount, !.reason = reason,
                                   !.performed_by = performed_by,
                                   !.flag = create_tx]
       IN IF inventory_id \notin DOMAIN inventory
          THEN req' = [req EXCEPT ![r] = [arrived EXCEPT !.pc = "done",
                                                         !.status = 404]]
          ELSE LET old_quantity == inventory[inventory_id].quantity
                   quantity == IF op = "adjust_inventory_quantity"
                               THEN ClampedQuantity(old_quantity, amount)
                               ELSE amount
               IN req' = [req EXCEPT ![r] =
                            [arrived EXCEPT !.pc = "commit",
                                            !.old_quantity = old_quantity,
                                            !.quantity = quantity,
                                            !.change = quantity - old_quantity]]
    /\ UNCHANGED <<products, inventory, ledger, clock, last>>

\* db.commit(): the unit of work writes the attribute if its value changed
\* (UPDATE inventory SET quantity = :quantity WHERE id = :id), then COMMIT.
CommitQuantity(r) ==
    /\ req[r].pc = "commit"
    /\ inventory' = IF req[r].quantity # req[r].old_quantity
                    THEN [inventory EXCEPT ![req[r].id].quantity = req[r].quantity]
                    ELSE inventory
    /\ req' = [req EXCEPT ![r].pc = "refresh"]
    /\ UNCHANGED <<products, ledger, clock, last>>

\* db.refresh(db_inventory): the row is read again; then the test that
\* decides whether a ledger entry is written.
Refresh(r) ==
    /\ req[r].pc = "refresh"
    /\ req' = [req EXCEPT ![r].quantity = inventory[req[r].id].quantity,
                          ![r].pc = IF req[r].flag /\ req[r].change # 0
                                    THEN "insert" ELSE "done",
                          ![r].status = IF req[r].flag /\ req[r].change # 0
                                        THEN 0 ELSE 200]
    /\ UNCHANGED <<products, inventory, ledger, clock, last>>

\* create_transaction: INSERT and COMMIT
InsertTransaction(r) ==
    /\ req[r].pc = "insert"
    /\ LET t == create_transaction(ledger, clock,
                    InventoryTransactionCreate(
                        inventory[req[r].id].product_id, req[r].change,
                        IF req[r].op = "adjust_inventory_quantity"
                        THEN ReasonOrDefault(req[r].reason) ELSE req[r].reason,
                        req[r].performed_by))
       IN /\ ledger' = t.ledger
          /\ clock' = t.clock
    /\ req' = [req EXCEPT ![r].pc = "done", ![r].status = 200]
    /\ UNCHANGED <<products, inventory, last>>

\* create_transaction: db.commit() raises (the database is locked by another
\* writer, the connection is lost); the exception leaves the handler, the
\* response is 500.  The first COMMIT is not undone.
InsertFails(r) ==
    /\ req[r].pc = "insert"
    /\ req' = [req EXCEPT ![r].pc = "failed", ![r].status = 500]
    /\ UNCHANGED <<products, inventory, ledger, clock, last>>

\* One product, one inventory row of it, an empty ledger, two requests
\* arriving; last.old_quantity keeps the quantity they found.
InitConc ==
    /\ products = create_product(<<>>, "S1")
    /\ \E q \in 0..MaxQty :
          /\ inventory = create_inventory_item(<<>>,
                             [product_id |-> 1, quantity |-> q, location |-> "A"])
          /\ last = [NothingServed EXCEPT !.old_quantity = q]
    /\ ledger = <<>>
    /\ clock = 1
    /\ req = [r \in Requests |-> Idle]

NextConc ==
    \E r \in Requests :
       \/ \E i \in InventoryIds, d \in Deltas, c \in Callers, f \in BOOLEAN :
             Query(r, "adjust_inventory_quantity", i, d, c.reason,
                   c.performed_by, f)
       \/ \E i \in InventoryIds, n \in Quantities, c \in Callers :
             Query(r, "set_inventory_quantity", i, n, c.reason,
                   c.performed_by, TRUE)
       \/ CommitQuantity(r)
       \/ Refresh(r)
       \/ InsertTransaction(r)
       \/ InsertFails(r)

SpecConc == InitConc /\ [][NextConc]_vars

(* ------------------------------ properties ---------------------------- *)
Adjusted == last.op = "adjust_inventory_quantity" /\ last.status = 200
SetAbsolute == last.op = "set_inventory_quantity" /\ last.status = 200
Appended == Len(ledger) = last.old_len + 1
NewestEntry == ledger[Len(ledger)]

\* C1: after adjust_inventory_quantity on an existing record the stored
\* quantity is max(0, old quantity + delta), hence never negative.
C1_AdjustStoresClampedSum ==
    Adjusted =>
        /\ inventory[last.id].quantity = Max(0, last.old_quantity + last.amount)
        /\ inventory[last.id].quantity >= 0

\* an adjustment that was clamped: 0 stored where the sum is negative
C1_Witness ==
    /\ Adjusted
    /\ last.old_quantity > 0
    /\ last.old_quantity + last.amount < 0
    /\ inventory[last.id].quantity = 0

\* C2: the ledger entry an adjustment appends carries new quantity - old
\* quantity, the change applied, and an entry is appended whenever
\* create_transaction is set and that change is not 0.
C2_EntryIsActualChange ==
    Adjusted =>
        /\ Appended =>
              NewestEntry.change_amount =
                  inventory[last.id].quantity - last.old_quantity
        /\ (last.flag /\ inventory[last.id].quantity # last.old_quantity)
              => Appended

\* a clamped adjustment whose entry differs from the requested delta
C2_Witness ==
    /\ Adjusted
    /\ Appended
    /\ last.old_quantity + last.amount < 0
    /\ NewestEntry.change_amount = -last.old_quantity
    /\ NewestEntry.change_amount # last.amount

\* C3: set_inventory_quantity stores new_quantity; it appends one entry of
\* new_quantity - old quantity when the two differ and none when they are equal.
C3_SetAbsoluteEntry ==
    SetAbsolute =>
        /\ inventory[last.id].quantity = last.amount
        /\ IF last.amount # last.old_quantity
           THEN /\ Appended
                /\ NewestEntry.change_amount = last.amount - last.old_quantity
           ELSE Len(ledger) = last.old_len

\* a set_absolute that changed the quantity, on a ledger that had a row
C3_Witness ==
    /\ SetAbsolute
    /\ last.amount # last.old_quantity
    /\ last.old_len > 0
    /\ Appended

C10_MissingInventoryIsNotFound ==
    [][(/\ last'.op \in {"adjust_inventory_quantity", "set_inventory_quantity"}
        /\ last'.id \notin DOMAIN inventory)
       => /\ inventory' = inventory
          /\ ledger' = ledger
          /\ \/ last'.status = 404
             \/ /\ last'.op = "set_inventory_quantity"
                /\ last'.amount < 0
                /\ last'.status = 422]_vars

\* a 404 of the adjust handler with a record and a ledger row in store
C10_Witness ==
    /\ last.op = "adjust_inventory_quantity"
    /\ last.status = 404
    /\ last.id \notin DOMAIN inventory
    /\ DOMAIN inventory # {}
    /\ ledger # <<>>

\* the rows of a ledger entry that the update path may not touch
Recorded(t) ==
    [id |-> t.id, product_id |-> t.product_id,
     change_amount |-> t.change_amount, created_at |-> t.created_at]

\* C7: update_transaction on an existing entry is answered 200 and changes
\* reason and performed_by only, to the values the request sets: id,
\* product_id, change_amount and created_at of the entry, and every other
\* entry, stay as recorded, whatever change_amount the request carries.
C7_UpdateKeepsChangeAmount ==
    [][(last'.op = "update_transaction" /\ last'.status = 200)
       => LET i == RowOf(ledger, last'.id)
          IN /\ Len(ledger') = Len(ledger)
             /\ Recorded(ledger'[i]) = Recorded(ledger[i])
             /\ \A j \in 1..Len(ledger) : j # i => ledger'[j] = ledger[j]
             /\ ledger'[i].reason = IF last'.reason # NoneStr
                                    THEN last'.reason ELSE ledger[i].reason
             /\ ledger'[i].performed_by = IF last'.performed_by # NoneInt
                                          THEN last'.performed_by
                                          ELSE ledger[i].performed_by]_vars

\* an update that asked for another change_amount and a new reason
C7_Witness ==
    /\ last.op = "update_transaction"
    /\ last.status = 200
    /\ last.flag
    /\ LET i == RowOf(ledger, last.id)
       IN /\ ledger[i].change_amount # last.amount
          /\ ledger[i].reason = "Fix"
          /\ ledger[i].reason = last.reason

\* the ledger of one product read entry by entry
RECURSIVE Tally(_, _)
Tally(led, product_id) ==
    IF led = <<>> THEN [ins |-> 0, outs |-> 0, signed |-> 0, count |-> 0]
    ELSE LET t == Head(led)
             rest == Tally(Tail(led), product_id)
             a == t.change_amount
         IN IF t.product_id # product_id THEN rest
            ELSE [ins    |-> rest.ins + (IF a > 0 THEN a ELSE 0),
                  outs   |-> rest.outs + (IF a < 0 THEN 0 - a ELSE 0),
                  signed |-> rest.signed + a,
                  count  |-> rest.count + 1]

Summarized == last.op = "get_product_transaction_summary"

\* C8: the summary of a product has total_in = the sum of its positive
\* change_amounts, total_out = the sum of the absolute values of its negative
\* ones, net_change = total_in - total_out = the signed sum of all of them and
\* transaction_count = the number of its entries; other products' entries do
\* not count.
C8_SummaryTotals ==
    Summarized =>
        LET expected == Tally(ledger, last.id)
        IN /\ last.summary.product_id = last.id
           /\ last.summary.total_in = expected.ins
           /\ last.summary.total_out = expected.outs
           /\ last.summary.net_change = expected.signed
           /\ last.summary.net_change =
                  last.summary.total_in - last.summary.total_out
           /\ last.summary.transaction_count = expected.count

\* a summary over an inflow and an outflow of the product
C8_Witness ==
    /\ Summarized
    /\ last.summary.total_in > 0
    /\ last.summary.total_out > 0
    /\ last.summary.transaction_count = 2

\* C9: the summary of a product without ledger entries, a product that does
\* not exist included, is answered 200 with all four figures 0.
C9_EmptySummaryIsZero ==
    (/\ last.op = "get_product_transaction_summary"
     /\ \A i \in 1..Len(ledger) : ledger[i].product_id # last.id)
    => /\ last.status = 200
       /\ last.summary.total_in = 0
       /\ last.summary.total_out = 0
       /\ last.summary.net_change = 0
       /\ last.summary.transaction_count = 0

\* the summary of a product that is not in the catalog, other entries in store
C9_Witness ==
    /\ last.op = "get_product_transaction_summary"
    /\ last.status = 200
    /\ ~product_exists(products, last.id)
    /\ ledger # <<>>
    /\ \A i \in 1..Len(ledger) : ledger[i].product_id # last.id
    /\ last.summary.transaction_count = 0

(* ----------------------- properties of SpecConc ----------------------- *)
\* the database the two requests found
Found ==
    [inventory |-> create_inventory_item(<<>>,
                       [product_id |-> 1, quantity |-> last.old_quantity,
                        location |-> "A"]),
     ledger |-> <<>>, clock |-> 1]

\* a request served alone, from the first statement to the last
Alone(rq, db) ==
    IF rq.op = "adjust_inventory_quantity"
    THEN adjust_inventory_quantity(db.inventory, db.ledger, db.clock, rq.id,
             rq.amount, rq.reason, rq.performed_by, rq.flag)
    ELSE update_inventory_with_transaction(db.inventory, db.ledger, db.clock,
             rq.id, rq.amount, rq.reason, rq.performed_by)

OneAfterTheOther(a, b) == Alone(req[b], Alone(req[a], Found))

Entry(t) ==
    [product_id |-> t.product_id, change_amount |-> t.change_amount,
     reason |-> t.reason, performed_by |-> t.performed_by]

\* the same entries, in any order
SameEntries(l1, l2) ==
    /\ Len(l1) = Len(l2)
    /\ \E f \in Permutations(1..Len(l1)) :
          \A i \in 1..Len(l1) : Entry(l1[i]) = Entry(l2[f[i]])

\* C4, as claimed: when two adjustments of one record have both been served,
\* the quantity stored and the entries appended are those of the two served
\* one after the other, in one order or the other.
C4_AdjustmentsSerialize ==
    (\A r \in Requests : req[r].pc = "done")
    => \E a, b \in Requests :
          /\ a # b
          /\ inventory = OneAfterTheOther(a, b).inventory
          /\ SameEntries(ledger, OneAfterTheOther(a, b).ledger)

\* C5, as claimed: when the append of the ledger entry fails, the request
\* fails as a unit: the quantity is the one the request found.
C5_FailsAsAUnit ==
    \A r \in Requests :
       (/\ req[r].pc = "failed"
        /\ \A o \in Requests \ {r} : req[o].pc = "idle")
       => inventory[req[r].id].quantity = req[r].old_quantity

\* C11: deleting or updating an inventory record or a ledger entry by an id
\* that is not stored is answered not found (404, the service's None / False)
\* and leaves the products, the inventory records and the ledger as they were.
C11_MissingIdChangesNothing ==
    [][(\/ /\ last'.op \in {"update_inventory_item", "delete_inventory_item"}
           /\ last'.id \notin DOMAIN inventory
        \/ /\ last'.op \in {"update_transaction", "delete_transaction"}
           /\ last'.id \notin LedgerIds(ledger))
       => /\ last'.status = 404
          /\ products' = products
          /\ inventory' = inventory
          /\ ledger' = ledger]_vars

\* an update of a ledger entry that is not stored, answered 404 while rows
\* are stored in every table
C11_Witness ==
    /\ last.op = "update_transaction"
    /\ last.status = 404
    /\ last.id \notin LedgerIds(ledger)
    /\ ledger # <<>>
    /\ DOMAIN inventory # {}
    /\ DOMAIN products # {}

\* C12: POST /inventory with a product_id that names no stored product is
\* answered 400 and stores no inventory record; with a stored product it
\* stores exactly one new record, with the quantity, the location and the
\* product_id of the request, and leaves the other records as they were.
C12_CreateChecksProduct ==
    [][\A p \in ProductIds, q \in Quantities, l \in Locations :
          post_inventory(p, q, l) =>
             IF p \in DOMAIN products
             THEN /\ last'.status = 200
                  /\ last'.id \notin DOMAIN inventory
                  /\ DOMAIN inventory' = DOMAIN inventory \cup {last'.id}
                  /\ \A i \in DOMAIN inventory : inventory'[i] = inventory[i]
                  /\ inventory'[last'.id] =
                        [product_id |-> p, quantity |-> q, location |-> l]
             ELSE /\ last'.status = 400
                  /\ inventory' = inventory]_vars

\* a create answered 400 while a product and an inventory record are stored
C12_Witness ==
    /\ last.op = "create_inventory_item"
    /\ last.status = 400
    /\ DOMAIN products # {}
    /\ DOMAIN inventory # {}

\* C13, as claimed: DELETE of a stored product succeeds, and afterwards
\* neither the product nor an inventory record with its product_id is stored
\* (so that every inventory record references a stored product).
C13_DeleteProductCascades ==
    [][(last'.op = "delete_product" /\ last'.id \in DOMAIN products)
       => /\ last'.status = 200
          /\ last'.id \notin DOMAIN products'
          /\ inventory_items(inventory', last'.id) = {}]_vars

\* C14: POST /inventory-transactions succeeds for every product_id, one that
\* names no stored product included, and appends exactly one entry, which
\* carries the product_id, the change_amount (positive, negative or 0), the
\* reason and the performed_by of the request; the entries before it stay.
C14_AppendAcceptsAnyProduct ==
    [][\A p \in ProductIds, a \in Amounts, c \in Callers :
          post_transaction(p, a, c.reason, c.performed_by) =>
             /\ last'.status = 200
             /\ Len(ledger') = Len(ledger) + 1
             /\ SubSeq(ledger', 1, Len(ledger)) = ledger
             /\ ledger'[Len(ledger')].product_id = p
             /\ ledger'[Len(ledger')].change_amount = a
             /\ ledger'[Len(ledger')].reason = c.reason
             /\ ledger'[Len(ledger')].performed_by = c.performed_by]_vars

\* an entry of change_amount 0 appended for a product that is not stored
C14_Witness ==
    /\ last.op = "create_transaction"
    /\ last.status = 200
    /\ Appended
    /\ NewestEntry.id = last.id
    /\ NewestEntry.product_id \notin DOMAIN products
    /\ NewestEntry.change_amount = 0

Listed == last.op = "get_transactions" /\ last.status = 200

\* C15: whichever query GET /inventory-transactions runs (all entries, by
\* product, by user, by reason), the entries come ordered by created_at
\* descending: none is listed after an entry created before it.
C15_ListedNewestFirst ==
    Listed =>
        \A i, j \in 1..Len(last.listed) :
           i < j => last.listed[i].created_at >= last.listed[j].created_at

\* two entries listed by reason, the one created later first
C15_Witness ==
    /\ Listed
    /\ last.id = NoneInt /\ last.performed_by = NoneInt /\ last.reason = "al"
    /\ Len(last.listed) = 2
    /\ last.listed[1].created_at > last.listed[2].created_at

\* the text contains the part as a substring, letter case ignored
ContainsIgnoringCase(text, part) ==
    LET t == Lowered(Chars(text))
        q == Lowered(Chars(part))
    IN \E k \in 0..(Len(t) - Len(q)) : SubSeq(t, k + 1, k + Len(q)) = q

\* C16, as claimed: listing by reason returns exactly the entries whose reason
\* contains the filter text as a substring, compared case-insensitively, and
\* no entry whose reason is absent or does not contain it.
C16_ReasonIsSubstringMatch ==
    [][\A limit \in 1..MaxLedger, r \in ReasonFilters \ {NoneStr} :
          (list_transactions(0, limit, NoneInt, NoneInt, r)
           /\ limit >= Len(ledger))
          => LET matching == SelectSeq(ledger, LAMBDA t :
                                /\ t.reason # NoneStr
                                /\ ContainsIgnoringCase(t.reason, r))
             IN /\ Len(last'.listed) = Len(matching)
                /\ {last'.listed[i] : i \in 1..Len(last'.listed)}
                      = {matching[i] : i \in 1..Len(matching)}]_vars

\* C17: DELETE of a stored ledger entry succeeds whatever else is stored:
\* that entry and no other is removed, the response is the success message
\* with the audit-trail warning, and the inventory records (their quantities
\* included), the products and the other entries are as they were.
C17_DeleteEntryUnconditionally ==
    [][(last'.op = "delete_transaction" /\ last'.id \in LedgerIds(ledger))
       => /\ last'.status = 200
          /\ last'.body.message = "Transaction deleted successfully"
          /\ last'.body.warning = "Audit trail integrity may be compromised"
          /\ last'.id \notin LedgerIds(ledger')
          /\ Len(ledger') = Len(ledger) - 1
          /\ \A i \in 1..Len(ledger) :
                ledger[i].id # last'.id
                => \E j \in 1..Len(ledger') : ledger'[j] = ledger[i]
          /\ inventory' = inventory
          /\ products' = products]_vars

\* an entry deleted while another entry stays, whose product has an inventory
\* record
C17_Witness ==
    /\ last.op = "delete_transaction"
    /\ last.status = 200
    /\ last.body = DeletedBody
    /\ last.id \notin LedgerIds(ledger)
    /\ Len(ledger) = 1
    /\ inventory_items(inventory, ledger[1].product_id) # {}

\* C18, as claimed: the entry an adjustment appends carries the reason of the
\* request whenever one was sent, and "Quantity adjustment" only when none
\* was.
C18_ReasonAsSupplied ==
    (Adjusted /\ Appended) =>
        NewestEntry.reason = IF last.reason # NoneStr THEN last.reason
                             ELSE "Quantity adjustment"

\* C18, amended: the entry carries the reason of the request when it is a
\* non-empty text, and "Quantity adjustment" when the reason is unset or the
\* empty text.
C18_ReasonOrDefault ==
    (Adjusted /\ Appended) =>
        /\ last.reason \notin {NoneStr, ""} => NewestEntry.reason = last.reason
        /\ last.reason \in {NoneStr, ""}
              => NewestEntry.reason = "Quantity adjustment"

\* an adjustment sent with an empty reason, recorded under the default text
C18_Witness ==
    /\ Adjusted
    /\ Appended
    /\ last.reason = ""
    /\ NewestEntry.reason = "Quantity adjustment"

\* C19: an adjustment of a stored record sent with create_transaction=false
\* stores max(0, old quantity + delta) and leaves the ledger as it was: no
\* entry is appended, changed or removed.
C19_UnrecordedAdjustment ==
    [][(/\ last'.op = "adjust_inventory_quantity"
        /\ last'.status = 200
        /\ ~last'.flag)
       => /\ ledger' = ledger
          /\ inventory'[last'.id].quantity =
                Max(0, inventory[last'.id].quantity + last'.amount)]_vars

\* an unrecorded adjustment, clamped, while the ledger holds an entry
C19_Witness ==
    /\ Adjusted
    /\ ~last.flag
    /\ last.old_quantity > 0
    /\ last.old_quantity + last.amount < 0
    /\ inventory[last.id].quantity = 0
    /\ ledger # <<>>
    /\ Len(ledger) = last.old_len

\* C20: an adjustment whose actual change is 0 (the quantity stored after it
\* is the one before it) appends no entry, create_transaction set or not,
\* and so does a set to the quantity already stored; no entry written by an
\* adjustment or a set has change_amount 0.
C20_NoZeroEntry ==
    /\ ((Adjusted \/ SetAbsolute)
        /\ inventory[last.id].quantity = last.old_quantity)
       => Len(ledger) = last.old_len
    /\ \A i \in 1..Len(ledger) : ledger[i].change_amount # 0

\* a recorded adjustment by a negative delta of a record at quantity 0: the
\* ledger, which holds an entry, has not grown
C20_Witness ==
    /\ Adjusted
    /\ last.flag
    /\ last.amount < 0
    /\ last.old_quantity = 0
    /\ inventory[last.id].quantity = 0
    /\ ledger # <<>>
    /\ Len(ledger) = last.old_len

\* C21: PUT /inventory/{id} on a stored record leaves the ledger as it was,
\* a change of quantity included, and changes of the record only the
\* quantity and the location the request sets: product_id, the fields not
\* set and the other records stay.
C21_UpdateWritesNoEntry ==
    [][\A i \in InventoryIds, u \in InventoryUpdates :
          (put_inventory(i, u) /\ i \in DOMAIN inventory)
          => /\ ledger' = ledger
             /\ DOMAIN inventory' = DOMAIN inventory
             /\ \A k \in DOMAIN inventory \ {i} : inventory'[k] = inventory[k]
             /\ inventory'[i].product_id = inventory[i].product_id
             /\ inventory'[i].quantity =
                   IF "quantity" \in u.fields THEN u.quantity
                   ELSE inventory[i].quantity
             /\ inventory'[i].location =
                   IF "location" \in u.fields THEN u.location
                   ELSE inventory[i].location]_vars

\* an update that changed the quantity while the ledger, which holds an
\* entry, has not grown
C21_Witness ==
    /\ last.op = "update_inventory_item"
    /\ last.status = 200
    /\ last.flag
    /\ inventory[last.id].quantity # last.old_quantity
    /\ ledger # <<>>
    /\ Len(ledger) = last.old_len

\* C22: filters of one list request are not combined: the response is that
\* of the product_id filter alone when it is set, else that of the user_id
\* filter alone when it is set, else that of the reason filter alone when
\* it is set, else all entries.
C22_FirstFilterDecides ==
    [][\A skip \in 0..1, limit \in 1..MaxLedger, p \in {NoneInt} \cup ProductIds,
          u \in {NoneInt, 1}, r \in ReasonFilters :
          list_transactions(skip, limit, p, u, r)
          => last'.listed =
                IF p # NoneInt
                THEN get_transactions_by_product(ledger, p, skip, limit)
                ELSE IF u # NoneInt
                THEN get_transactions_by_user(ledger, u, skip, limit)
                ELSE IF r # NoneStr
                THEN get_transactions_by_reason(ledger, r, skip, limit)
                ELSE get_transactions(ledger, skip, limit)]_vars

\* a request with all three filters set that lists an entry of the product
\* which neither the user filter nor the reason filter matches
C22_Witness ==
    /\ Listed
    /\ last.id # NoneInt /\ last.performed_by # NoneInt /\ last.reason = "xl"
    /\ \E k \in 1..Len(last.listed) :
          /\ last.listed[k].product_id = last.id
          /\ last.listed[k].performed_by # last.performed_by

\* C23: no two products hold the same sku: every create, update or delete of
\* a product ends with the skus pairwise different, and a create or an
\* update that names a sku another product holds stores nothing.
C23_SkuIsUnique ==
    [][/\ \A p, q \in DOMAIN products' :
             p # q => products'[p].sku # products'[q].sku
       /\ \A sku \in CatalogSkus :
             (post_product(sku) /\ SkuTaken(products, sku))
             => products' = products
       /\ \A p \in CatalogIds, u \in ProductUpdates :
             (/\ put_product(p, u)
              /\ p \in DOMAIN products
              /\ "sku" \in u.fields
              /\ \E q \in DOMAIN products \ {p} : products[q].sku = u.sku)
             => products' = products]_vars

\* an update to the sku of the other product, refused
C23_Witness ==
    /\ last.op = "update_product"
    /\ last.status = 500
    /\ Cardinality(DOMAIN products) = 2

C25_LedgerReconstructsStock ==
    \A p \in DOMAIN products :
       LET records == SelectSeq(Rows(inventory), LAMBDA r : r.product_id = p)
       IN get_product_transaction_summary(ledger, p).net_change
             = SumSeq([k \in 1..Len(records) |->
                          records[k].quantity
                             - InitialStock[records[k].id].quantity])

\* a full ledger after a clamped adjustment, the net change of product 1
\* not 0
C25_Witness ==
    /\ Adjusted
    /\ last.old_quantity + last.amount < 0
    /\ Len(ledger) = MaxAudit
    /\ get_product_transaction_summary(ledger, 1).net_change # 0

\* C26, as claimed: GET /inventory with a product_id and a page (skip, limit)
\* returns the records at positions skip .. skip+limit-1 of all the records
\* of the product, however many there are.
C26_ProductPageIsExact ==
    [][\A skip \in PageSkips, limit \in PageLimits :
          list_inventory(skip, limit, NoneStr, 1)
          => last'.listed =
                offset_limit(SelectSeq(Rows(inventory),
                                       LAMBDA r : r.product_id = 1),
                             skip, limit)]_vars

\* C27: a request to adjust or to set a quantity, whatever its answer, leaves
\* every entry of the ledger in place and unchanged and appends at most one:
\* the ledger after it is the ledger before it, or that plus one new entry.
C27_LedgerOnlyGrowsByOne ==
    [][last'.op \in {"adjust_inventory_quantity", "set_inventory_quantity"}
       => /\ Len(ledger') \in {Len(ledger), Len(ledger) + 1}
          /\ SubSeq(ledger', 1, Len(ledger)) = ledger]_vars

\* an adjustment appended its entry behind an earlier entry of the product
C27_Witness ==
    /\ Adjusted
    /\ Appended
    /\ Len(ledger) = 2
    /\ ledger[1].reason = "Sale"
    /\ ledger[1].product_id = ledger[2].product_id

C29_SetIsAdjustByDifference ==
    [][(/\ last'.op = "set_inventory_quantity"
        /\ last'.status = 200
        /\ last'.old_quantity >= 0
        /\ last'.reason \notin {NoneStr, ""})
       => LET out == adjust_inventory_quantity(inventory, ledger, clock,
                         last'.id, last'.amount - last'.old_quantity,
                         last'.reason, last'.performed_by, TRUE)
          IN /\ out.found
             /\ inventory' = out.inventory
             /\ ledger' = out.ledger]_vars

\* a set that lowered a positive quantity and appended its entry
C29_Witness ==
    /\ SetAbsolute
    /\ Appended
    /\ last.old_quantity > 0
    /\ last.amount < last.old_quantity
    /\ NewestEntry.change_amount = last.amount - last.old_quantity
    /\ NewestEntry.reason = last.reason

\* C30: a set served right after the same set (the same record, the same
\* new quantity) changes nothing: the quantity is the one the first left and
\* no entry is appended.
C30_SetIsIdempotent ==
    [][(/\ SetAbsolute
        /\ last'.op = "set_inventory_quantity"
        /\ last'.status = 200
        /\ last'.id = last.id
        /\ last'.amount = last.amount)
       => /\ inventory'[last'.id].quantity = inventory[last.id].quantity
          /\ inventory'[last'.id].quantity = last.amount
          /\ ledger' = ledger]_vars

\* the second of two equal sets: it found the quantity it asks for, and the
\* ledger still ends with the entry of the first
C30_Witness ==
    /\ SetAbsolute
    /\ last.old_quantity = last.amount
    /\ inventory[last.id].quantity = last.amount
    /\ Len(ledger) = last.old_len
    /\ ledger # <<>>
    /\ NewestEntry.reason = last.reason
    /\ NewestEntry.change_amount # 0

====
